---- MODULE Spec2Model ----
(***************************************************************************)
(* The ALFWorld JSON-line bridge (examples/alma/priv/alfworld_bridge.py):  *)
(* the loop of main(), its session variables env, tw_env and game_files,   *)
(* the engine objects the loop holds references to, and the record of      *)
(* everything the loop reads, calls and writes.                            *)
(***************************************************************************)
EXTENDS Integers, Sequences, FiniteSets, TLC

\* ------------------------------------------------------------------ bounds
\* Number of input lines a run of the loop reads at most.
MaxLines == 3
\* Number of layers of a wrapper chain handed to set_game_files at most.
MaxDepth == 3
\* Number of input lines a run of the mock bridge reads at most.
MockMaxLines == 4
\* Length of the files handed to process_file, and number of runs over one file.
WrapMaxLen == 6
WrapRuns == 2

\* ------------------------------------------------------------ Python values
\* Python's None, for env and tw_env before any init.
None == 0
\* A key that a decoded JSON object does not carry.
Absent == "<absent>"
\* None where a text value is expected (dict.get without the key).
NoneText == "<None>"

\* dict.get(key, default) on a decoded JSON object.
Get(obj, key, default) == IF obj[key] = Absent THEN default ELSE obj[key]

\* Python truthiness of a string-or-None value (None and "" are falsy).
Truthy(v) == v # NoneText /\ v # ""

\* f"{v}": str() of a text is the text, str(None) is "None".
Fmt(v) == IF v = NoneText THEN "None" ELSE v

\* ------------------------------------------------------------ input lines
\* Task identifiers the engine knows.
Tasks == {"t1", "t2"}

\* A decoded JSON object with the keys the loop reads.
Obj(c, g, a) == [cmd |-> c, game_file |-> g, action |-> a]

\* The JSON objects a caller sends.
Objects ==
    { Obj(c, Absent, Absent) : c \in {Absent, "fly", "init", "list_tasks", "shutdown"} }
    \cup { Obj("reset", g, Absent) : g \in {Absent, ""} \cup Tasks }
    \cup { Obj("step", Absent, a) : a \in {Absent, "go to desk 1"} }

\* A line of stdin, by what line.strip() and json.loads make of it:
\*   blank   - empty after strip()
\*   bad     - json.loads raises json.JSONDecodeError
\*   fault   - json.loads raises another exception (ValueError for an
\*             integer literal over the digit limit, RecursionError)
\*   scalar  - decodes to a value that is not an object (42, [], "x", null)
\*   object  - decodes to a JSON object
NoObj == Obj(Absent, Absent, Absent)
Lines ==
    { [k |-> kind, v |-> NoObj] : kind \in {"blank", "bad", "fault", "scalar"} }
    \cup { [k |-> "object", v |-> o] : o \in Objects }

\* not line.strip()
IsBlank(line) == line.k = "blank"

\* json.loads(line): "JSONDecodeError", "OtherError", or "ok".
JsonLoads(line) ==
    CASE line.k = "bad" -> "JSONDecodeError"
      [] line.k = "fault" -> "OtherError"
      [] OTHER -> "ok"

\* cmd.get("cmd") is defined only on objects; on any other decoded value
\* the attribute lookup raises AttributeError.
HasGet(line) == line.k = "object"

\* cmd.get("cmd"): the command kind, None when the key is absent.
CmdOf(line) == Get(line.v, "cmd", NoneText)

\* ------------------------------------------------------------ responses
ErrorResp(prefix, detail) == [status |-> "error", error |-> <<prefix, detail>>]
OkResp == [status |-> "ok"]

\* ------------------------------------------------------------ state
VARIABLES
    pc,          \* "loop": at the for statement; "break": left by shutdown;
                 \* "eof": stdin exhausted; "fault": unhandled exception
    nread,       \* number of lines read from stdin so far
    env,         \* main's env: handle of the engine environment, or None
    tw_env,      \* main's tw_env: the AlfredTWEnv object, or None
    game_files,  \* main's game_files: the task catalog
    tw_objs,     \* AlfredTWEnv objects constructed so far: their game_files
    env_objs,    \* environments created so far: their wrapper chains
    trace        \* every line read, engine call made and response written

vars == <<pc, nread, env, tw_env, game_files, tw_objs, env_objs, trace>>

\* ------------------------------------------------------------ events
ReadEv(n, line) == [e |-> "read", n |-> n, line |-> line]
SendEv(n, resp) == [e |-> "send", n |-> n, resp |-> resp]
CallEv(n, op, h, ok, arg, files, chain) ==
    [e |-> "call", n |-> n, op |-> op, h |-> h, ok |-> ok, arg |-> arg,
     files |-> files, chain |-> chain]

\* send(data): one record written to stdout and flushed.
send(n, data) == <<SendEv(n, data)>>

\* send_error(msg)
send_error(n, prefix, detail) == send(n, ErrorResp(prefix, detail))

Init ==
    /\ pc = "loop"
    /\ nread = 0
    /\ env = None
    /\ tw_env = None
    /\ game_files = <<>>
    /\ tw_objs = <<>>
    /\ env_objs = <<>>
    /\ trace = <<>>

\* The loop is about to read line number nread + 1.
AtLoop == pc = "loop" /\ nread < MaxLines

Session == <<env, tw_env, game_files>>
Heap == <<tw_objs, env_objs>>

\* for line in sys.stdin: no more lines.
EndOfInput ==
    /\ pc = "loop"
    /\ pc' = "eof"
    /\ UNCHANGED <<nread, Session, Heap, trace>>

\* A blank line: `if not line: continue`.
BlankLine ==
    /\ AtLoop
    /\ \E line \in Lines :
        /\ IsBlank(line)
        /\ trace' = trace \o <<ReadEv(nread + 1, line)>>
    /\ nread' = nread + 1
    /\ UNCHANGED <<pc, Session, Heap>>

\* json.loads fails.  JSONDecodeError is caught and reported; any other
\* exception is not caught and leaves main().
DecodeFailure ==
    /\ AtLoop
    /\ \E line \in Lines :
        /\ ~IsBlank(line)
        /\ JsonLoads(line) # "ok"
        /\ IF JsonLoads(line) = "JSONDecodeError"
           THEN /\ trace' = trace \o <<ReadEv(nread + 1, line)>>
                              \o send_error(nread + 1, "Invalid JSON: ", "e")
                /\ pc' = pc
           ELSE /\ trace' = trace \o <<ReadEv(nread + 1, line)>>
                /\ pc' = "fault"
    /\ nread' = nread + 1
    /\ UNCHANGED <<Session, Heap>>

\* The line decodes to a value without a get method: cmd.get raises
\* AttributeError outside any try block.
NotAnObject ==
    /\ AtLoop
    /\ \E line \in Lines :
        /\ ~IsBlank(line)
        /\ JsonLoads(line) = "ok"
        /\ ~HasGet(line)
        /\ trace' = trace \o <<ReadEv(nread + 1, line)>>
    /\ pc' = "fault"
    /\ nread' = nread + 1
    /\ UNCHANGED <<Session, Heap>>

\* The line decodes to an object with command kind c.
Decoded(line, c) ==
    /\ ~IsBlank(line)
    /\ JsonLoads(line) = "ok"
    /\ HasGet(line)
    /\ CmdOf(line) = c

Known == {"init", "list_tasks", "reset", "step", "shutdown"}

\* else: send_error(f"Unknown command: {action}")
UnknownCommand ==
    /\ AtLoop
    /\ \E line \in Lines :
        /\ ~IsBlank(line) /\ JsonLoads(line) = "ok" /\ HasGet(line)
        /\ CmdOf(line) \notin Known
        /\ trace' = trace \o <<ReadEv(nread + 1, line)>>
                          \o send_error(nread + 1, "Unknown command: ", Fmt(CmdOf(line)))
    /\ nread' = nread + 1
    /\ UNCHANGED <<pc, Session, Heap>>

\* ListTasks answering with the engine's live task set instead of the
\* catalog stored by init.
ListTasks_LiveSet ==
    /\ AtLoop
    /\ \E line \in Lines :
        /\ Decoded(line, "list_tasks")
        /\ trace' = trace \o <<ReadEv(nread + 1, line)>>
                          \o send(nread + 1,
                                  [tasks |-> IF tw_env = None \/ tw_objs[tw_env] = <<Absent>>
                                             THEN <<>> ELSE tw_objs[tw_env]])
    /\ nread' = nread + 1
    /\ UNCHANGED <<pc, Session, Heap>>

\* elif action == "list_tasks": send({"tasks": game_files})
ListTasks ==
    /\ AtLoop
    /\ \E line \in Lines :
        /\ Decoded(line, "list_tasks")
        /\ trace' = trace \o <<ReadEv(nread + 1, line)>>
                          \o send(nread + 1, [tasks |-> game_files])
    /\ nread' = nread + 1
    /\ UNCHANGED <<pc, Session, Heap>>

\* ------------------------------------------------------------ the engine
\* A task-set attribute that an object does not carry.
NoFiles == <<Absent>>

\* Catalogs an AlfredTWEnv can have collected when it is constructed.
Catalogs == { <<"t1", "t2">>, <<"t2">> }

\* One layer of the wrapper chain behind env: its two task-set attributes
\* (NoFiles when the layer has no such attribute) and its two delegate
\* attributes ("noattr": no such attribute, "none": it is None, "inner":
\* it refers to the next layer of the chain).
Layer(gf, gF, e, w) == [game_files |-> gf, gameFiles |-> gF, env |-> e, wrapped_env |-> w]

\* The chains init_env builds, each layer caching the catalog.
EngineChains(files) ==
    { << Layer(files, NoFiles, "inner", "noattr"),
         Layer(NoFiles, files, "noattr", "noattr") >>,
      << Layer(files, files, "noattr", "inner"),
         Layer(files, NoFiles, "noattr", "inner"),
         Layer(NoFiles, files, "noattr", "none") >>,
      << Layer(files, NoFiles, "none", "inner"),
         Layer(NoFiles, files, "noattr", "noattr") >> }

\* hasattr(e, attr) for a task-set attribute
hasattr(layer, attr) == layer[attr] # NoFiles

\* for attr in ("game_files", "gameFiles"): if hasattr: setattr
SetAttrs(layer, files) ==
    LET l1 == IF hasattr(layer, "game_files")
              THEN [layer EXCEPT !.game_files = files] ELSE layer
    IN IF hasattr(l1, "gameFiles") THEN [l1 EXCEPT !.gameFiles = files] ELSE l1

\* getattr(e, "env", getattr(e, "_wrapped_env", None)) for layer i of a
\* chain: the index of the next layer, or None.
InnerOf(chain, i) ==
    LET link == IF chain[i].env # "noattr" THEN chain[i].env
                ELSE IF chain[i].wrapped_env # "noattr" THEN chain[i].wrapped_env
                ELSE "none"
    IN IF link = "inner" /\ i < Len(chain) THEN i + 1 ELSE None

\* The while loop of set_game_files, from layer i on.
RECURSIVE WalkFrom(_, _, _)
WalkFrom(chain, i, files) ==
    IF i = None THEN chain
    ELSE WalkFrom([chain EXCEPT ![i] = SetAttrs(@, files)], InnerOf(chain, i), files)

\* set_game_files(env, files)
set_game_files(chain, files) == WalkFrom(chain, 1, files)

\* What the engine can do with one init command: the step that raises
\* ("config": imports, opening or parsing the config file; "ctor":
\* AlfredTWEnv(...); "init_env": tw_env.init_env; "none": no engine call
\* raises), the game_files attribute of the AlfredTWEnv it constructs
\* (NoFiles: reading it raises) and the chain init_env returns.
InitOutcomes ==
    { [at |-> a, files |-> NoFiles, chain |-> <<>>] : a \in {"config", "ctor"} }
    \cup { [at |-> "init_env", files |-> f, chain |-> <<>>] : f \in Catalogs }
    \cup UNION { { [at |-> "none", files |-> f, chain |-> c] : c \in EngineChains(f) } :
                    f \in Catalogs }
    \cup { [at |-> "none", files |-> NoFiles, chain |-> c] : c \in EngineChains(<<>>) }

\* list(tw_env.game_files): raises when the attribute cannot be read.
Readable(files) == files # NoFiles

\* elif action == "init": each assignment takes effect as soon as the call
\* on its right-hand side returns; an exception anywhere in the try block
\* is reported and leaves the assignments already made in place.
InitCommand ==
    /\ AtLoop
    /\ \E line \in Lines, o \in InitOutcomes :
        LET n == nread + 1
            tw == Len(tw_objs) + 1
            h == Len(env_objs) + 1
            rd == <<ReadEv(n, line)>>
            failed(step) == send_error(n, "Failed to initialize ALFWorld: ", step)
            ctor(ok) == <<CallEv(n, "AlfredTWEnv", IF ok THEN tw ELSE None, ok, "", o.files, <<>>)>>
            mk(ok) == <<CallEv(n, "init_env", IF ok THEN h ELSE None, ok, "", o.files, <<>>)>>
        IN
        /\ Decoded(line, "init")
        /\ CASE o.at = "config" ->
                  /\ trace' = trace \o rd \o failed("config")
                  /\ UNCHANGED <<Session, Heap>>
             [] o.at = "ctor" ->
                  /\ trace' = trace \o rd \o ctor(FALSE) \o failed("AlfredTWEnv")
                  /\ UNCHANGED <<Session, Heap>>
             [] o.at = "init_env" ->
                  /\ trace' = trace \o rd \o ctor(TRUE) \o mk(FALSE) \o failed("init_env")
                  /\ tw_objs' = Append(tw_objs, o.files)
                  /\ tw_env' = tw
                  /\ UNCHANGED <<env, game_files, env_objs>>
             [] o.at = "none" /\ ~Readable(o.files) ->
                  /\ trace' = trace \o rd \o ctor(TRUE) \o mk(TRUE) \o failed("game_files")
                  /\ tw_objs' = Append(tw_objs, o.files)
                  /\ env_objs' = Append(env_objs, o.chain)
                  /\ tw_env' = tw
                  /\ env' = h
                  /\ UNCHANGED game_files
             [] o.at = "none" /\ Readable(o.files) ->
                  /\ trace' = trace \o rd \o ctor(TRUE) \o mk(TRUE)
                                \o send(n, [status |-> "ok", task_count |-> Len(o.files)])
                  /\ tw_objs' = Append(tw_objs, o.files)
                  /\ env_objs' = Append(env_objs, o.chain)
                  /\ tw_env' = tw
                  /\ env' = h
                  /\ game_files' = o.files
    /\ nread' = nread + 1
    /\ UNCHANGED pc

\* ------------------------------------------------------------ texts
\* An observation text is a sequence of characters.
Whitespace == {" ", "\n"}

\* str.strip()
RECURSIVE LStrip(_)
LStrip(t) == IF t # <<>> /\ Head(t) \in Whitespace THEN LStrip(Tail(t)) ELSE t
RECURSIVE RStrip(_)
RStrip(t) ==
    IF t # <<>> /\ t[Len(t)] \in Whitespace THEN RStrip(SubSeq(t, 1, Len(t) - 1)) ELSE t
Strip(t) == RStrip(LStrip(t))

\* str.split("\n")[0]: the text up to the first newline.
RECURSIVE FirstLine(_)
FirstLine(t) ==
    IF t = <<>> \/ Head(t) = "\n" THEN <<>> ELSE <<Head(t)>> \o FirstLine(Tail(t))

\* The goal taken from the text as it came, without strip().
GoalOf_NoStrip(obs_text) == FirstLine(obs_text)

\* goal = obs_text.strip().split("\n")[0]
GoalOf(obs_text) == FirstLine(Strip(obs_text))

\* A value the engine returns either as a batch of one (list or tuple) or
\* as a bare value.
Batch(v) == [kind |-> "list", val |-> <<v>>]
Bare(v) == [kind |-> "bare", val |-> <<v>>]

\* x[0] if isinstance(x, (list, tuple)) else conv(x), conv leaving a value
\* of the target type as it is.
First(x) == IF x.kind = "list" THEN x.val[1] ELSE Head(x.val)

\* infos.get("admissible_commands", [[]])[0]
Admissible(infos) ==
    (IF infos.has_admissible THEN infos.admissible_commands ELSE << <<>> >>)[1]

\* What env.reset() can return.
ResetReplies ==
    { [obs |-> Batch(<<"g", "\n", "r">>), infos |-> [has_admissible |-> TRUE, admissible_commands |-> << <<"look">> >>]],
      [obs |-> Bare(<<"\n", "g">>), infos |-> [has_admissible |-> FALSE, admissible_commands |-> << <<>> >>]] }

\* What env.step([act]) can return.
StepReplies ==
    { [obs |-> Batch(<<"o">>), scores |-> Batch(0), dones |-> Batch(FALSE),
       infos |-> [has_admissible |-> TRUE, admissible_commands |-> << <<"look">> >>]],
      [obs |-> Bare(<<"w">>), scores |-> Bare(1), dones |-> Bare(TRUE),
       infos |-> [has_admissible |-> FALSE, admissible_commands |-> << <<>> >>]] }

\* ResetCommand dropping the engine handle when env.reset() raises.
ResetCommand_Invalidate ==
    /\ AtLoop
    /\ \E line \in Lines, raises \in BOOLEAN, r \in ResetReplies :
        LET n == nread + 1
            game_file == Get(line.v, "game_file", NoneText)
            files == <<game_file>>
        IN
        /\ Decoded(line, "reset")
        /\ IF env = None
           THEN /\ ~raises /\ r = CHOOSE x \in ResetReplies : TRUE
                /\ trace' = trace \o <<ReadEv(n, line)>>
                     \o send_error(n, "Environment not initialized. Call init first.", "")
                /\ UNCHANGED Heap
           ELSE LET tw1 == IF Truthy(game_file)
                           THEN [tw_objs EXCEPT ![tw_env] = files] ELSE tw_objs
                    en1 == IF Truthy(game_file)
                           THEN [env_objs EXCEPT ![env] = set_game_files(@, files)]
                           ELSE env_objs
                    call == <<CallEv(n, "reset", env, ~raises, "", tw1[tw_env], en1[env])>>
                IN
                /\ raises => r = CHOOSE x \in ResetReplies : TRUE
                /\ tw_objs' = tw1
                /\ env_objs' = en1
                /\ trace' = trace \o <<ReadEv(n, line)>> \o call \o
                     (IF raises
                      THEN send_error(n, "Reset failed: ", "e")
                      ELSE send(n, [obs |-> First(r.obs),
                                    admissible_commands |-> Admissible(r.infos),
                                    goal |-> GoalOf(First(r.obs)),
                                    done |-> FALSE,
                                    score |-> 0]))
        /\ env' = IF env # None /\ raises THEN None ELSE env
    /\ nread' = nread + 1
    /\ UNCHANGED <<pc, tw_env, game_files>>

\* ResetCommand putting the catalog of init back when no game_file is given.
ResetCommand_RestoreCatalog ==
    /\ AtLoop
    /\ \E line \in Lines, raises \in BOOLEAN, r \in ResetReplies :
        LET n == nread + 1
            game_file == Get(line.v, "game_file", NoneText)
            files == <<game_file>>
        IN
        /\ Decoded(line, "reset")
        /\ IF env = None
           THEN /\ ~raises /\ r = CHOOSE x \in ResetReplies : TRUE
                /\ trace' = trace \o <<ReadEv(n, line)>>
                     \o send_error(n, "Environment not initialized. Call init first.", "")
                /\ UNCHANGED Heap
           ELSE LET tw1 == IF Truthy(game_file)
                           THEN [tw_objs EXCEPT ![tw_env] = files]
                           ELSE [tw_objs EXCEPT ![tw_env] = game_files]
                    en1 == IF Truthy(game_file)
                           THEN [env_objs EXCEPT ![env] = set_game_files(@, files)]
                           ELSE [env_objs EXCEPT ![env] = set_game_files(@, game_files)]
                    call == <<CallEv(n, "reset", env, ~raises, "", tw1[tw_env], en1[env])>>
                IN
                /\ raises => r = CHOOSE x \in ResetReplies : TRUE
                /\ tw_objs' = tw1
                /\ env_objs' = en1
                /\ trace' = trace \o <<ReadEv(n, line)>> \o call \o
                     (IF raises
                      THEN send_error(n, "Reset failed: ", "e")
                      ELSE send(n, [obs |-> First(r.obs),
                                    admissible_commands |-> Admissible(r.infos),
                                    goal |-> GoalOf(First(r.obs)),
                                    done |-> FALSE,
                                    score |-> 0]))
    /\ nread' = nread + 1
    /\ UNCHANGED <<pc, Session>>

\* ResetCommand narrowing the catalog kept for list_tasks as well.
ResetCommand_NarrowCatalog ==
    /\ AtLoop
    /\ \E line \in Lines, raises \in BOOLEAN, r \in ResetReplies :
        LET n == nread + 1
            game_file == Get(line.v, "game_file", NoneText)
            files == <<game_file>>
        IN
        /\ Decoded(line, "reset")
        /\ IF env = None
           THEN /\ ~raises /\ r = CHOOSE x \in ResetReplies : TRUE
                /\ trace' = trace \o <<ReadEv(n, line)>>
                     \o send_error(n, "Environment not initialized. Call init first.", "")
                /\ UNCHANGED Heap
           ELSE LET tw1 == IF Truthy(game_file)
                           THEN [tw_objs EXCEPT ![tw_env] = files] ELSE tw_objs
                    en1 == IF Truthy(game_file)
                           THEN [env_objs EXCEPT ![env] = set_game_files(@, files)]
                           ELSE env_objs
                    call == <<CallEv(n, "reset", env, ~raises, "", tw1[tw_env], en1[env])>>
                IN
                /\ raises => r = CHOOSE x \in ResetReplies : TRUE
                /\ tw_objs' = tw1
                /\ env_objs' = en1
                /\ trace' = trace \o <<ReadEv(n, line)>> \o call \o
                     (IF raises
                      THEN send_error(n, "Reset failed: ", "e")
                      ELSE send(n, [obs |-> First(r.obs),
                                    admissible_commands |-> Admissible(r.infos),
                                    goal |-> GoalOf(First(r.obs)),
                                    done |-> FALSE,
                                    score |-> 0]))
        /\ game_files' = IF env # None /\ Truthy(game_file) THEN files ELSE game_files
    /\ nread' = nread + 1
    /\ UNCHANGED <<pc, env, tw_env>>

\* elif action == "reset"
ResetCommand ==
    /\ AtLoop
    /\ \E line \in Lines, raises \in BOOLEAN, r \in ResetReplies :
        LET n == nread + 1
            game_file == Get(line.v, "game_file", NoneText)
            files == <<game_file>>
        IN
        /\ Decoded(line, "reset")
        /\ IF env = None
           THEN /\ ~raises /\ r = CHOOSE x \in ResetReplies : TRUE
                /\ trace' = trace \o <<ReadEv(n, line)>>
                     \o send_error(n, "Environment not initialized. Call init first.", "")
                /\ UNCHANGED Heap
           ELSE LET tw1 == IF Truthy(game_file)
                           THEN [tw_objs EXCEPT ![tw_env] = files] ELSE tw_objs
                    en1 == IF Truthy(game_file)
                           THEN [env_objs EXCEPT ![env] = set_game_files(@, files)]
                           ELSE env_objs
                    call == <<CallEv(n, "reset", env, ~raises, "", tw1[tw_env], en1[env])>>
                IN
                /\ raises => r = CHOOSE x \in ResetReplies : TRUE
                /\ tw_objs' = tw1
                /\ env_objs' = en1
                /\ trace' = trace \o <<ReadEv(n, line)>> \o call \o
                     (IF raises
                      THEN send_error(n, "Reset failed: ", "e")
                      ELSE send(n, [obs |-> First(r.obs),
                                    admissible_commands |-> Admissible(r.infos),
                                    goal |-> GoalOf(First(r.obs)),
                                    done |-> FALSE,
                                    score |-> 0]))
    /\ nread' = nread + 1
    /\ UNCHANGED <<pc, Session>>

\* elif action == "step"
StepCommand ==
    /\ AtLoop
    /\ \E line \in Lines, raises \in BOOLEAN, r \in StepReplies :
        LET n == nread + 1
            act == Get(line.v, "action", "look")
        IN
        /\ Decoded(line, "step")
        /\ (env = None \/ raises) => r = CHOOSE x \in StepReplies : TRUE
        /\ IF env = None
           THEN /\ ~raises
                /\ trace' = trace \o <<ReadEv(n, line)>>
                     \o send_error(n, "Environment not initialized. Call init first.", "")
           ELSE trace' = trace \o <<ReadEv(n, line)>>
                     \o <<CallEv(n, "step", env, ~raises, act, tw_objs[tw_env], env_objs[env])>>
                     \o (IF raises
                         THEN send_error(n, "Step failed: ", "e")
                         ELSE send(n, [obs |-> First(r.obs),
                                       admissible_commands |-> Admissible(r.infos),
                                       done |-> First(r.dones),
                                       score |-> First(r.scores)]))
    /\ nread' = nread + 1
    /\ UNCHANGED <<pc, Session, Heap>>

\* ShutdownCommand without the break: the loop goes on reading.
ShutdownCommand_NoBreak ==
    /\ AtLoop
    /\ \E line \in Lines, closes \in BOOLEAN :
        LET n == nread + 1 IN
        /\ Decoded(line, "shutdown")
        /\ env = None => closes
        /\ trace' = trace \o <<ReadEv(n, line)>>
                      \o (IF env # None THEN <<CallEv(n, "close", env, closes, "", <<>>, <<>>)>> ELSE <<>>)
                      \o send(n, OkResp)
    /\ nread' = nread + 1
    /\ UNCHANGED <<pc, Session, Heap>>

\* ShutdownCommand answering before it closes the engine.
ShutdownCommand_AnswerFirst ==
    /\ AtLoop
    /\ \E line \in Lines, closes \in BOOLEAN :
        LET n == nread + 1 IN
        /\ Decoded(line, "shutdown")
        /\ env = None => closes
        /\ trace' = trace \o <<ReadEv(n, line)>>
                      \o send(n, OkResp)
                      \o (IF env # None THEN <<CallEv(n, "close", env, closes, "", <<>>, <<>>)>> ELSE <<>>)
    /\ pc' = "break"
    /\ nread' = nread + 1
    /\ UNCHANGED <<Session, Heap>>

\* elif action == "shutdown": close the engine if there is one, ignoring a
\* failure of close, answer ok and leave the loop.
ShutdownCommand ==
    /\ AtLoop
    /\ \E line \in Lines, closes \in BOOLEAN :
        LET n == nread + 1 IN
        /\ Decoded(line, "shutdown")
        /\ env = None => closes
        /\ trace' = trace \o <<ReadEv(n, line)>>
                      \o (IF env # None THEN <<CallEv(n, "close", env, closes, "", <<>>, <<>>)>> ELSE <<>>)
                      \o send(n, OkResp)
    /\ pc' = "break"
    /\ nread' = nread + 1
    /\ UNCHANGED <<Session, Heap>>

Next ==
    \/ EndOfInput
    \/ BlankLine
    \/ DecodeFailure
    \/ NotAnObject
    \/ UnknownCommand
    \/ ListTasks
    \/ InitCommand
    \/ ResetCommand
    \/ StepCommand
    \/ ShutdownCommand

Spec == Init /\ [][Next]_vars

\* ------------------------------------------------------------ reading the trace
Idx == 1 .. Len(trace)

IsRead(i) == trace[i].e = "read"
IsSend(i) == trace[i].e = "send"
IsCall(i, op) == trace[i].e = "call" /\ trace[i].op = op

\* The responses written, and the engine calls made, for line n.
SendsFor(n) == { i \in Idx : IsSend(i) /\ trace[i].n = n }
CallsFor(n) == { i \in Idx : trace[i].e = "call" /\ trace[i].n = n }

\* Line i of the trace is a read of a JSON object whose command kind is c.
ReadsCmd(i, c) == IsRead(i) /\ trace[i].line.k = "object" /\ trace[i].line.v.cmd = c

IsError(resp) == DOMAIN resp = {"status", "error"} /\ resp.status = "error"
IsInitOk(resp) == DOMAIN resp = {"status", "task_count"} /\ resp.status = "ok"
IsTasks(resp) == DOMAIN resp = {"tasks"}

\* In the step being taken, a line is read; the line; the events added.
ReadsLine == nread' = nread + 1
NewLine == trace'[Len(trace) + 1].line
NewEvents == SubSeq(trace', Len(trace) + 2, Len(trace'))

\* The step being taken handles an init command and answers with an error.
InitFails ==
    /\ ReadsLine
    /\ NewLine.k = "object" /\ NewLine.v.cmd = "init"
    /\ IsError(trace'[Len(trace')].resp)

\* ------------------------------------------------------------ claims

\* C1: every non-blank line read gets exactly one response, a blank line
\* none, and the response to a line is written after the line is read and
\* before any later line is read.
C1_OneResponsePerLine ==
    \A i \in Idx : IsRead(i) =>
        LET n == trace[i].n IN
        /\ Cardinality(SendsFor(n)) = (IF trace[i].line.k = "blank" THEN 0 ELSE 1)
        /\ \A j \in SendsFor(n) :
              /\ j > i
              /\ \A k \in Idx : (IsRead(k) /\ trace[k].n > n) => k > j

\* C2: a line that fails decoding gets exactly one error response, leaves
\* env, tw_env and game_files as they were, and leaves the loop reading.
C2_DecodeFailureReported ==
    [][ (ReadsLine /\ NewLine.k \in {"bad", "fault"}) =>
          /\ Len(NewEvents) = 1
          /\ NewEvents[1].e = "send" /\ IsError(NewEvents[1].resp)
          /\ Session' = Session
          /\ pc' = "loop" ]_vars

\* C3: a line that decodes to any value whose command kind is absent or
\* unrecognised gets exactly the response Unknown command: <kind>, changes
\* no session state, and leaves the loop reading.
C3_UnknownCommandReported ==
    [][ (/\ ReadsLine
         /\ NewLine.k \in {"scalar", "object"}
         /\ (NewLine.k = "object" => NewLine.v.cmd \notin Known)) =>
          /\ Len(NewEvents) = 1
          /\ NewEvents[1].e = "send" /\ IsError(NewEvents[1].resp)
          /\ NewEvents[1].resp.error[1] = "Unknown command: "
          /\ Session' = Session
          /\ pc' = "loop" ]_vars

\* C4: a reset or step read before any init was answered with status ok
\* is answered with an error and makes no engine call.
C4_NoEngineCallBeforeInitOk ==
    \A i \in Idx :
        (/\ ReadsCmd(i, "reset") \/ ReadsCmd(i, "step")
         /\ ~ \E j \in 1 .. i - 1 : IsSend(j) /\ IsInitOk(trace[j].resp)) =>
            /\ CallsFor(trace[i].n) = {}
            /\ \A j \in SendsFor(trace[i].n) : IsError(trace[j].resp)

\* C5: after an init command that answers with an error, env is None.
C5_InitErrorLeavesNoHandle ==
    [][ InitFails => env' = None ]_vars

\* C6: an init command that answers with an error leaves env, tw_env and
\* game_files as they were before the command.
C6_InitErrorLeavesSession ==
    [][ InitFails => Session' = Session ]_vars

\* Environments created by init_env on which close has not been called.
Unreleased ==
    { h \in 1 .. Len(env_objs) : ~ \E i \in Idx : IsCall(i, "close") /\ trace[i].h = h }

\* C7: at most one environment that was created and not released exists.
C7_AtMostOneHandle == Cardinality(Unreleased) <= 1
\* The largest element of a non-empty set of indices.
Latest(S) == CHOOSE j \in S : \A k \in S : k <= j

\* C8: list_tasks makes no engine call and is answered once, with the
\* empty list when no init has answered ok before it, and otherwise with
\* the catalog the engine object of the latest such init was constructed
\* with, as many identifiers as that init's task_count; two list_tasks
\* with no init answered ok between them get the same answer.
C8_ListTasksReturnsCatalog ==
    \A i \in Idx : ReadsCmd(i, "list_tasks") =>
        LET n == trace[i].n
            oks == { j \in 1 .. i - 1 : IsSend(j) /\ IsInitOk(trace[j].resp) }
            made == { j \in 1 .. i - 1 : IsCall(j, "AlfredTWEnv")
                                          /\ trace[j].n = trace[Latest(oks)].n }
        IN
        /\ CallsFor(n) = {}
        /\ SendsFor(n) = {i + 1}
        /\ IsTasks(trace[i + 1].resp)
        /\ IF oks = {}
           THEN trace[i + 1].resp.tasks = <<>>
           ELSE /\ trace[i + 1].resp.tasks = trace[Latest(made)].files
                /\ Len(trace[i + 1].resp.tasks) = trace[Latest(oks)].resp.task_count
        /\ \A k \in 1 .. i - 1 :
              (/\ ReadsCmd(k, "list_tasks")
               /\ ~ \E j \in k .. i : IsSend(j) /\ IsInitOk(trace[j].resp)) =>
                  trace[k + 1].resp = trace[i + 1].resp

\* A list_tasks answered with a non-empty catalog after a reset narrowed
\* the engine's task set to something else.
C8_Witness ==
    /\ tw_env # None
    /\ game_files # <<>>
    /\ tw_objs[tw_env] # game_files
    /\ Len(trace) >= 2
    /\ ReadsCmd(Len(trace) - 1, "list_tasks")
    /\ trace[Len(trace)].resp.tasks = game_files

\* C9: a shutdown command is answered with exactly {status: "ok"}, and
\* that response ends the trace: nothing is read, called or written later.
C9_ShutdownAnswersOkLast ==
    \A i \in Idx : ReadsCmd(i, "shutdown") =>
        /\ Cardinality(SendsFor(trace[i].n)) = 1
        /\ trace[Len(trace)] = SendEv(trace[i].n, OkResp)
        /\ nread = trace[i].n
        /\ pc \in {"break"}

\* A shutdown handled as a later line, with an engine present.
C9_Witness ==
    /\ pc = "break"
    /\ env # None
    /\ nread >= 2
    /\ trace[Len(trace)].resp = OkResp

\* C10: handling shutdown with env present calls close on env once and
\* then writes {status: "ok"}, whether or not close raised; with env
\* absent it only writes {status: "ok"}.
C10_CloseBeforeOk ==
    [][ (ReadsLine /\ NewLine.k = "object" /\ NewLine.v.cmd = "shutdown") =>
          IF env # None
          THEN /\ Len(NewEvents) = 2
               /\ NewEvents[1].e = "call" /\ NewEvents[1].op = "close"
               /\ NewEvents[1].h = env
               /\ NewEvents[2] = SendEv(nread + 1, OkResp)
          ELSE NewEvents = <<SendEv(nread + 1, OkResp)>> ]_vars

\* A shutdown whose close raised and was answered ok all the same.
C10_Witness ==
    /\ Len(trace) >= 2
    /\ IsCall(Len(trace) - 1, "close")
    /\ ~trace[Len(trace) - 1].ok
    /\ trace[Len(trace)] = SendEv(nread, OkResp)
\* ------------------------------------------------------------ claims, continued

\* Event i of the trace is a call of env.reset or env.step that raised.
EngineFailed(i) == (IsCall(i, "reset") \/ IsCall(i, "step")) /\ ~trace[i].ok

\* Every engine failure in the trace is followed by exactly one error
\* response, and every reset or step read after it, with no environment
\* created in between, is forwarded to the handle that failed.
FailureForwarded ==
    \A i \in Idx : EngineFailed(i) =>
        /\ SendsFor(trace[i].n) = {i + 1}
        /\ IsError(trace[i + 1].resp)
        /\ \A k \in i + 2 .. Len(trace) :
              (/\ ReadsCmd(k, "reset") \/ ReadsCmd(k, "step")
               /\ ~ \E j \in i .. k : IsCall(j, "init_env") /\ trace[j].ok) =>
                  /\ k + 1 <= Len(trace)
                  /\ IsCall(k + 1, trace[k].line.v.cmd)
                  /\ trace[k + 1].h = trace[i].h

\* C11: when env.reset or env.step raises, the command is answered with
\* exactly one error response, the loop goes on, env is left as it was,
\* and a later reset or step is forwarded to the same handle.
C11_EngineFailureKeepsHandle ==
    [][ /\ (ReadsLine /\ Len(NewEvents) >= 1 /\ NewEvents[1].e = "call"
              /\ NewEvents[1].op \in {"reset", "step"} /\ ~NewEvents[1].ok) =>
                /\ Len(NewEvents) = 2
                /\ NewEvents[2].e = "send" /\ IsError(NewEvents[2].resp)
                /\ env' = env /\ env' = NewEvents[1].h
                /\ pc' = "loop"
        /\ FailureForwarded' ]_vars

\* A reset that raised, followed by a step forwarded to the same handle.
C11_Witness ==
    \E i \in Idx : \E k \in Idx :
        /\ IsCall(i, "reset") /\ ~trace[i].ok
        /\ k > i /\ IsCall(k, "step") /\ trace[k].h = trace[i].h

\* C12: the loop is left only by a shutdown command or at the end of
\* input; no other line and no failure ends it.
C12_LoopEndsOnlyByShutdownOrEof ==
    /\ pc \in {"loop", "break", "eof"}
    /\ pc = "break" => (nread >= 1 /\ \E i \in Idx : ReadsCmd(i, "shutdown") /\ trace[i].n = nread)
\* ------------------------------------------------------------ set_game_files alone
\* The task set every layer caches before the call.
OldFiles == <<"t1", "t2">>

\* A layer that has an inner layer: env or _wrapped_env refers to it.
OuterLayers ==
    { Layer(gf, gF, e, w) : gf \in {NoFiles, OldFiles}, gF \in {NoFiles, OldFiles},
                            e \in {"noattr", "none", "inner"},
                            w \in {"noattr", "none", "inner"} }
    \ { Layer(gf, gF, e, w) : gf \in {NoFiles, OldFiles}, gF \in {NoFiles, OldFiles},
                              e \in {"noattr", "none"}, w \in {"noattr", "none"} }

\* The innermost layer: it refers to no further layer.
InnermostLayers ==
    { Layer(gf, gF, e, w) : gf \in {NoFiles, OldFiles}, gF \in {NoFiles, OldFiles},
                            e \in {"noattr", "none"}, w \in {"noattr", "none"} }

\* The finite chains of d layers, outermost first.
RECURSIVE ChainsOf(_)
ChainsOf(d) ==
    IF d = 1 THEN { <<l>> : l \in InnermostLayers }
    ELSE { <<l>> \o c : l \in OuterLayers, c \in ChainsOf(d - 1) }

Chains == UNION { ChainsOf(d) : d \in 1 .. MaxDepth }

\* env is a chain about to be handed to set_game_files.
ChainInit ==
    /\ pc = "call"
    /\ nread = 0
    /\ env = 1
    /\ tw_env = None
    /\ game_files = <<>>
    /\ tw_objs = <<>>
    /\ env_objs \in { <<c>> : c \in Chains }
    /\ trace = <<>>

\* set_game_files(env, [t]) runs and returns.
SetGameFiles ==
    /\ pc = "call"
    /\ \E t \in Tasks :
        /\ env_objs' = [env_objs EXCEPT ![env] = set_game_files(@, <<t>>)]
        /\ trace' = <<CallEv(0, "set_game_files", env, TRUE, t, <<t>>, env_objs[env])>>
    /\ pc' = "return"
    /\ UNCHANGED <<nread, Session, tw_objs>>

ChainNext == SetGameFiles

SpecChain == ChainInit /\ [][ChainNext]_vars

\* C13: after set_game_files has returned, every layer of the chain holds
\* the new task list in each task-set attribute it carries.
C13_EveryLayerNarrowed ==
    pc = "return" =>
        \A i \in 1 .. Len(env_objs[env]) : \A attr \in {"game_files", "gameFiles"} :
            hasattr(env_objs[env][i], attr) => env_objs[env][i][attr] = trace[1].files
\* The engine call recorded in event ev found the task set [t] at the
\* AlfredTWEnv object and in every task-set attribute of every layer.
NarrowedTo(ev, t) ==
    /\ ev.files = <<t>>
    /\ \A i \in 1 .. Len(ev.chain) : \A attr \in {"game_files", "gameFiles"} :
          hasattr(ev.chain[i], attr) => ev.chain[i][attr] = <<t>>

\* C14: when a reset names game_file T, env.reset() is called with the
\* task set narrowed to [T] at tw_env and at every layer, and so is every
\* env.step() up to the next reset.
C14_NarrowedBeforeReset ==
    \A i \in Idx :
        (/\ ReadsCmd(i, "reset")
         /\ Truthy(Get(trace[i].line.v, "game_file", NoneText))
         /\ i + 1 <= Len(trace)
         /\ IsCall(i + 1, "reset")) =>
            /\ NarrowedTo(trace[i + 1], trace[i].line.v.game_file)
            /\ \A k \in i + 2 .. Len(trace) :
                  (IsCall(k, "step") /\ ~ \E j \in i + 1 .. k : ReadsCmd(j, "reset")) =>
                      NarrowedTo(trace[k], trace[i].line.v.game_file)
\* ------------------------------------------------------------ the mock bridge
\* mock_alfworld_bridge.py.  A text is a sequence of pieces.
MOCK_TASKS == <<"path/to/task1.tw-pddl", "path/to/task2.tw-pddl", "path/to/task3.tw-pddl">>

INITIAL_OBS ==
    <<"You are in the middle of a room.",
      " Looking quickly around you, you see a desk 1, a shelf 1, and a drawer 1.",
      "\n", "Your task is to put a mug in shelf.">>

StepResp(obs, adm, done, score) ==
    [obs |-> obs, admissible_commands |-> adm, done |-> done, score |-> score]

\* The keys of STEP_RESPONSES.
ScriptActions ==
    {"go to desk 1", "take mug 1 from desk 1", "go to shelf 1", "put mug 1 in/on shelf 1"}

STEP_RESPONSES(act) ==
    CASE act = "go to desk 1" ->
           StepResp(<<"On the desk 1, you see a ", "mug 1", " and a pen 1.">>,
                    <<"take mug 1 from desk 1", "take pen 1 from desk 1",
                      "go to shelf 1", "go to drawer 1">>, FALSE, 0)
      [] act = "take mug 1 from desk 1" ->
           StepResp(<<"You pick up the ", "mug 1", " from the desk 1.">>,
                    <<"go to shelf 1", "go to drawer 1", "go to desk 1",
                      "put mug 1 in/on shelf 1", "put mug 1 in/on drawer 1">>, FALSE, 0)
      [] act = "go to shelf 1" ->
           StepResp(<<"You arrive at shelf 1. On the shelf 1, you see nothing.">>,
                    <<"put mug 1 in/on shelf 1", "go to desk 1", "go to drawer 1">>, FALSE, 0)
      [] act = "put mug 1 in/on shelf 1" ->
           StepResp(<<"You put the ", "mug 1", " in/on the shelf 1.">>, <<>>, TRUE, 1)

DEFAULT_STEP ==
    StepResp(<<"Nothing happens.">>,
             <<"go to desk 1", "go to shelf 1", "go to drawer 1", "look", "inventory">>,
             FALSE, 0)

\* STEP_RESPONSES.get(act, DEFAULT_STEP) with a script whose last key is
\* misspelt, so that the closing action falls through to the default.
MockStep_KeyMismatch(act) ==
    IF act \in ScriptActions \ {"put mug 1 in/on shelf 1"}
    THEN STEP_RESPONSES(act) ELSE DEFAULT_STEP

\* The mock's step refusing a command without an action.
MockStep_RequiresAction(act) ==
    IF act = "" THEN [status |-> "error", error |-> <<"Missing action", "">>]
    ELSE IF act \in ScriptActions THEN STEP_RESPONSES(act) ELSE DEFAULT_STEP

\* resp = STEP_RESPONSES.get(act, DEFAULT_STEP)
MockStep(act) == IF act \in ScriptActions THEN STEP_RESPONSES(act) ELSE DEFAULT_STEP

\* The mock's answer to reset.
MockResetResp ==
    [obs |-> INITIAL_OBS,
     admissible_commands |-> <<"go to desk 1", "go to shelf 1", "go to drawer 1", "look", "inventory">>,
     goal |-> <<"Your task is to put a mug in shelf.">>,
     done |-> FALSE,
     score |-> 0]

\* One pass of the body of the mock's loop over a line: the responses it
\* writes and where the loop stands afterwards.
MockHandle(line) ==
    CASE IsBlank(line) -> [sends |-> <<>>, pc |-> "loop"]
      [] ~IsBlank(line) /\ JsonLoads(line) = "JSONDecodeError" ->
           [sends |-> <<ErrorResp("Invalid JSON", "")>>, pc |-> "loop"]
      [] ~IsBlank(line) /\ JsonLoads(line) = "OtherError" -> [sends |-> <<>>, pc |-> "fault"]
      [] ~IsBlank(line) /\ JsonLoads(line) = "ok" /\ ~HasGet(line) ->
           [sends |-> <<>>, pc |-> "fault"]
      [] Decoded(line, "init") ->
           [sends |-> <<[status |-> "ok", task_count |-> Len(MOCK_TASKS)]>>, pc |-> "loop"]
      [] Decoded(line, "list_tasks") -> [sends |-> <<[tasks |-> MOCK_TASKS]>>, pc |-> "loop"]
      [] Decoded(line, "reset") -> [sends |-> <<MockResetResp>>, pc |-> "loop"]
      [] Decoded(line, "step") ->
           [sends |-> <<MockStep(Get(line.v, "action", ""))>>, pc |-> "loop"]
      [] Decoded(line, "shutdown") -> [sends |-> <<OkResp>>, pc |-> "break"]
      [] OTHER ->
           [sends |-> <<ErrorResp("Unknown command: ", Fmt(CmdOf(line)))>>, pc |-> "loop"]

\* The lines a caller sends to the mock: those of the bridge and the
\* remaining actions of the script.
MockLines ==
    Lines \cup { [k |-> "object", v |-> Obj("step", Absent, a)] : a \in ScriptActions }

\* The mock loop reads line number nread + 1 and handles it.
MockApply(line) ==
    /\ pc = "loop" /\ nread < MockMaxLines
    /\ trace' = trace \o <<ReadEv(nread + 1, line)>>
                      \o [i \in 1 .. Len(MockHandle(line).sends) |->
                             SendEv(nread + 1, MockHandle(line).sends[i])]
    /\ pc' = MockHandle(line).pc
    /\ nread' = nread + 1
    /\ UNCHANGED <<Session, Heap>>

MockBlankLine == \E line \in MockLines : IsBlank(line) /\ MockApply(line)
MockDecodeFailure ==
    \E line \in MockLines : ~IsBlank(line) /\ JsonLoads(line) # "ok" /\ MockApply(line)
MockNotAnObject ==
    \E line \in MockLines :
        ~IsBlank(line) /\ JsonLoads(line) = "ok" /\ ~HasGet(line) /\ MockApply(line)
MockInitCommand == \E line \in MockLines : Decoded(line, "init") /\ MockApply(line)
MockListTasks == \E line \in MockLines : Decoded(line, "list_tasks") /\ MockApply(line)
MockResetCommand == \E line \in MockLines : Decoded(line, "reset") /\ MockApply(line)
MockStepCommand == \E line \in MockLines : Decoded(line, "step") /\ MockApply(line)
MockShutdownCommand == \E line \in MockLines : Decoded(line, "shutdown") /\ MockApply(line)
MockUnknownCommand ==
    \E line \in MockLines :
        /\ ~IsBlank(line) /\ JsonLoads(line) = "ok" /\ HasGet(line)
        /\ CmdOf(line) \notin Known
        /\ MockApply(line)

MockNext ==
    \/ EndOfInput
    \/ MockBlankLine
    \/ MockDecodeFailure
    \/ MockNotAnObject
    \/ MockInitCommand
    \/ MockListTasks
    \/ MockResetCommand
    \/ MockStepCommand
    \/ MockShutdownCommand
    \/ MockUnknownCommand

SpecMock == Init /\ [][MockNext]_vars

\* The mock's loop run over a sequence of lines: what it writes, line by
\* line, and where it stands at the end.
RECURSIVE MockMain(_, _, _)
MockMain(lines, n, acc) ==
    IF n > Len(lines) \/ acc.pc # "loop" THEN acc
    ELSE MockMain(lines, n + 1,
                  [sends |-> Append(acc.sends, MockHandle(lines[n]).sends),
                   pc |-> MockHandle(lines[n]).pc])

\* ------------------------------------------------------------ C15
\* The lines the bridge has read, in order.
LinesRead ==
    [n \in 1 .. nread |-> trace[CHOOSE i \in Idx : IsRead(i) /\ trace[i].n = n].line]

\* What the mock writes when it is fed the lines the bridge has read.
MockRun == MockMain(LinesRead, 1, [sends |-> <<>>, pc |-> "loop"])

\* The outcome kind of a response: the set of its fields.
Kind(resp) == DOMAIN resp

\* The fields of the successful answer to a command.
SuccessShape(c) ==
    CASE c = "init" -> {"status", "task_count"}
      [] c = "reset" -> {"obs", "admissible_commands", "goal", "done", "score"}
      [] c = "step" -> {"obs", "admissible_commands", "done", "score"}

\* The mock stands where the bridge stands (end of input is met in the loop).
SameLoopState ==
    /\ Len(MockRun.sends) = nread
    /\ MockRun.pc = (IF pc = "eof" THEN "loop" ELSE pc)

ReadsStep(i, a) == ReadsCmd(i, "step") /\ trace[i].line.v.action = a

\* Event i is a response that reports the episode as done.
SaysDone(i) == IsSend(i) /\ "done" \in DOMAIN trace[i].resp /\ trace[i].resp.done

\* Before event i the steps of the script that lead to the shelf were sent
\* in order.
Navigated(i) ==
    \E a, b, c \in 1 .. i :
        /\ a < b /\ b < c
        /\ ReadsStep(a, "go to desk 1")
        /\ ReadsStep(b, "take mug 1 from desk 1")
        /\ ReadsStep(c, "go to shelf 1")

IsResetOk(i) == IsSend(i) /\ Kind(trace[i].resp) = SuccessShape("reset")

\* Every piece of the text t is white space.
AllWhite(t) == \A k \in DOMAIN t : t[k] \in Whitespace

\* g is the first line of the text t once the white space around t is
\* dropped: t is white space, then g, then either only white space or a
\* newline and more; g holds no newline and does not begin with white space.
FirstLineOfStripped(g, t) ==
    /\ \A k \in DOMAIN g : g[k] # "\n"
    /\ g # <<>> => g[1] \notin Whitespace
    /\ \E k \in 0 .. Len(t) :
          /\ AllWhite(SubSeq(t, 1, k))
          /\ k + Len(g) <= Len(t)
          /\ SubSeq(t, k + 1, k + Len(g)) = g
          /\ LET rest == SubSeq(t, k + Len(g) + 1, Len(t))
             IN IF AllWhite(rest) THEN g = <<>> \/ g[Len(g)] \notin Whitespace
                ELSE g # <<>> /\ rest[1] = "\n"

\* C17: every successful reset response carries done = false and score = 0,
\* and its goal equals the first line of the obs text of the same response.
C17_GoalIsFirstLineOfObs ==
    \A i \in Idx :
        IsResetOk(i) =>
            /\ trace[i].resp.done = FALSE /\ trace[i].resp.score = 0
            /\ trace[i].resp.goal = FirstLine(trace[i].resp.obs)

\* C17, amended: every successful reset response carries done = false and
\* score = 0, and its goal equals the first line of the obs text of the same
\* response after leading and trailing white space is stripped from it.
C17_GoalIsFirstLineOfStrippedObs ==
    \A i \in Idx :
        IsResetOk(i) =>
            /\ trace[i].resp.done = FALSE /\ trace[i].resp.score = 0
            /\ trace[i].resp.goal = FirstLine(Strip(trace[i].resp.obs))
            /\ FirstLineOfStripped(trace[i].resp.goal, trace[i].resp.obs)

\* A reset answered with an obs text that begins with a newline: the goal is
\* the line after it.
C17_Witness ==
    \E i \in Idx :
        /\ IsResetOk(i)
        /\ trace[i].resp.obs = <<"\n", "g">>
        /\ trace[i].resp.goal = <<"g">>

\* ------------------------------------------------------------ C18
\* The line carries no game_file: the key is absent or its value is empty.
NoGameFile(line) == line.v.game_file \in {Absent, ""}

\* C18: a reset with no game_file modifies no task-set attribute at any
\* engine layer, and the engine runs with the task set the layers held
\* before the command: after a reset that narrowed the task set to [T], a
\* later reset without game_file runs with the task set still [T].
C18_ResetWithoutFileKeepsTaskSet ==
    [][ (ReadsLine /\ NewLine.k = "object" /\ NewLine.v.cmd = "reset" /\ NoGameFile(NewLine)) =>
          /\ tw_objs' = tw_objs
          /\ env_objs' = env_objs
          /\ \A k \in DOMAIN NewEvents :
                NewEvents[k].e = "call" =>
                    /\ NewEvents[k].op = "reset"
                    /\ NewEvents[k].files = tw_objs[tw_env]
                    /\ NewEvents[k].chain = env_objs[env]
      ]_vars

\* init finds two tasks, a reset narrows the task set to t1, and a reset
\* without game_file then runs the engine with the task set still t1.
C18_Witness ==
    \E i \in Idx : \E k \in Idx :
        /\ i < k
        /\ ReadsCmd(i, "reset") /\ trace[i].line.v.game_file = "t1"
        /\ IsCall(i + 1, "reset") /\ trace[i + 1].files = <<"t1">>
        /\ ReadsCmd(k, "reset") /\ NoGameFile(trace[k].line)
        /\ IsCall(k + 1, "reset") /\ trace[k + 1].ok
        /\ trace[k + 1].files = <<"t1">>
        /\ game_files = <<"t1", "t2">>
        /\ \A j \in Idx : ~ReadsCmd(j, "init") \/ j < i

\* ------------------------------------------------------------ C19
\* The step being taken handles an init command and answers it with success.
InitSucceeds ==
    /\ ReadsLine
    /\ NewLine.k = "object" /\ NewLine.v.cmd = "init"
    /\ IsInitOk(trace'[Len(trace')].resp)

\* C19: the catalog returned by list_tasks is changed only by a successful
\* init; no reset, step, malformed line or unknown command changes it, and
\* list_tasks returns the whole of it.
C19_CatalogChangedOnlyByInit ==
    [][ /\ (game_files' # game_files => InitSucceeds)
        /\ (ReadsLine /\ NewLine.k = "object" /\ NewLine.v.cmd = "list_tasks") =>
              NewEvents = <<SendEv(nread + 1, [tasks |-> game_files])>>
      ]_vars

\* init finds two tasks, a reset narrows the engine to t2, and list_tasks
\* still returns both identifiers.
C19_Witness ==
    /\ Len(trace) >= 3
    /\ \E i \in Idx :
          /\ ReadsCmd(i, "reset") /\ trace[i].line.v.game_file = "t2"
          /\ IsCall(i + 1, "reset") /\ trace[i + 1].files = <<"t2">>
          /\ i + 3 = Len(trace) - 1
    /\ ReadsCmd(Len(trace) - 1, "list_tasks")
    /\ trace[Len(trace)].resp = [tasks |-> <<"t1", "t2">>]

\* ------------------------------------------------------------ wrap_programs.py
\* A text is a sequence of characters.
Program == <<"p", "r", "o", "g", "r", "a", "m">>
SigilOpen == <<"~", "s", "(">>
\* '{"program":' and '{ "program":', the prefixes of a wrapped program.
WrapperPrefix == <<"{", "\"", "p", "r", "o", "g", "r", "a", "m", "\"", ":">>
WrapperPrefixSpaced == <<"{", " ", "\"", "p", "r", "o", "g", "r", "a", "m", "\"", ":">>
\* '{"program": ', what wrap_program_json puts in front.
Wrapper == <<"{", "\"", "p", "r", "o", "g", "r", "a", "m", "\"", ":", " ">>

\* The pieces files are made of: the head of a program definition,
\* parentheses, the wrapper prefixes and a blank.
Pieces ==
    { Program \o <<" ", "=", " ", "~", "s">>,
      <<"(">>, <<")">>, Wrapper, WrapperPrefixSpaced, <<" ">> }

\* text.startswith(word, i): word stands in text from position i on.
HasAt(text, i, word) ==
    /\ i + Len(word) - 1 <= Len(text)
    /\ SubSeq(text, i, i + Len(word) - 1) = word

\* \s*: the first position from i on that holds no white space.
RECURSIVE SkipWs(_, _)
SkipWs(text, i) ==
    IF i <= Len(text) /\ text[i] \in Whitespace THEN SkipWs(text, i + 1) ELSE i

\* pattern = r'program\s*=\s*~s\(' matched at position i: the position of
\* the "(" that ends the match, or 0 when there is no match at i.
MatchAt(text, i) ==
    IF ~HasAt(text, i, Program) THEN 0
    ELSE LET j == SkipWs(text, i + Len(Program)) IN
         IF ~HasAt(text, j, <<"=">>) THEN 0
         ELSE LET k == SkipWs(text, j + 1) IN
              IF HasAt(text, k, SigilOpen) THEN k + 2 ELSE 0

\* The loop of find_matching_paren from position i on.
RECURSIVE ParenScan(_, _, _)
ParenScan(text, i, depth) ==
    IF i <= Len(text) /\ depth > 0
    THEN ParenScan(text, i + 1,
                   IF text[i] = "(" THEN depth + 1
                   ELSE IF text[i] = ")" THEN depth - 1 ELSE depth)
    ELSE IF depth = 0 THEN i - 1 ELSE -1

\* find_matching_paren(text, start_pos): the position of the parenthesis
\* closing the one at start_pos, or -1.
find_matching_paren(text, start_pos) == ParenScan(text, start_pos + 1, 1)

\* wrap_program_json(json_content)
wrap_program_json(json_content) ==
    LET stripped == Strip(json_content) IN
    IF HasAt(stripped, 1, WrapperPrefix) \/ HasAt(stripped, 1, WrapperPrefixSpaced)
    THEN json_content
    ELSE Wrapper \o json_content \o <<"}">>

\* re.finditer(pattern, content): the positions of the "(" ending the
\* matches, found left to right without overlap.
RECURSIVE Finditer(_, _)
Finditer(content, i) ==
    IF i > Len(content) THEN <<>>
    ELSE IF MatchAt(content, i) # 0
         THEN <<MatchAt(content, i)>> \o Finditer(content, MatchAt(content, i) + 1)
         ELSE Finditer(content, i + 1)

\* The list matches built by the first loop of process_file: start is the
\* position of the "(", end that of the matching ")".
RECURSIVE MatchesOf(_, _)
MatchesOf(content, starts) ==
    IF starts = <<>> THEN <<>>
    ELSE LET start == Head(starts)
             end == find_matching_paren(content, start)
             json_content == SubSeq(content, start + 1, end - 1)
         IN (IF end = -1 THEN <<>>
             ELSE << [start |-> start, end |-> end, original |-> json_content,
                      wrapped |-> wrap_program_json(json_content)] >>)
            \o MatchesOf(content, Tail(starts))

\* The second loop of process_file: the matches taken last to first, each
\* spliced into the text at the positions found in the original content.
RECURSIVE Splice(_, _)
Splice(acc, matches) ==
    IF matches = <<>> THEN acc
    ELSE LET match == matches[Len(matches)]
             rest == SubSeq(matches, 1, Len(matches) - 1)
         IN IF match.original # match.wrapped
            THEN Splice([content |-> SubSeq(acc.content, 1, match.start)
                                        \o match.wrapped
                                        \o SubSeq(acc.content, match.end, Len(acc.content)),
                         modifications |-> acc.modifications + 1], rest)
            ELSE Splice(acc, rest)

\* process_file: the text the file holds afterwards and the number returned.
process_file(content) ==
    Splice([content |-> content, modifications |-> 0],
           MatchesOf(content, Finditer(content, 1)))

\* The pieces of ps put one after the other.
RECURSIVE Concat(_)
Concat(ps) == IF ps = <<>> THEN <<>> ELSE Head(ps) \o Concat(Tail(ps))

\* The files of up to WrapMaxLen pieces.
Files == { Concat(ps) : ps \in UNION { [1 .. n -> Pieces] : n \in 0 .. WrapMaxLen } }

\* A run of process_file as an event: the text of the file after it and the
\* number of modifications it returned.
FileEv(content, modifications) ==
    [e |-> "file", content |-> content, modifications |-> modifications]

\* A file as written by its author, before any run.
WrapInit ==
    /\ pc = "call"
    /\ nread = 0
    /\ env = None /\ tw_env = None /\ game_files = <<>>
    /\ tw_objs = <<>> /\ env_objs = <<>>
    /\ trace \in { <<FileEv(c, 0)>> : c \in Files }

\* One run of the script over the file.
ProcessFile ==
    /\ pc = "call"
    /\ nread < WrapRuns
    /\ LET r == process_file(trace[Len(trace)].content)
       IN trace' = Append(trace, FileEv(r.content, r.modifications))
    /\ nread' = nread + 1
    /\ UNCHANGED <<pc, Session, Heap>>

WrapNext == ProcessFile

SpecWrap == WrapInit /\ [][WrapNext]_vars

\* ------------------------------------------------------------ C20
\* C20: wrap_program_json is idempotent and returns content that already
\* starts with the wrapper unchanged; consequently a second run of
\* process_file over a file it has already processed makes zero
\* modifications.
C20_SecondRunIsNoOp ==
    /\ \A i \in Idx :
          LET x == trace[i].content IN
          /\ wrap_program_json(wrap_program_json(x)) = wrap_program_json(x)
          /\ HasAt(x, 1, WrapperPrefix) => wrap_program_json(x) = x
    /\ Len(trace) >= 3 => trace[3].modifications = 0

====
